---- MODULE Spec2Model ----
(***************************************************************************)
(* A model of the VK4 decoder: the primitive readers of readbinary.py, the *)
(* offset-table and pixel-block decoders of vk4_datapull.py, the builders, *)
(* the director and the containers of VkContainer.py / VK4container.py.    *)
(*                                                                         *)
(* A file is a sequence of bytes (0..255) and a cursor.  Integers of the   *)
(* model are TLC's 32-bit integers: every unsigned 32-bit field of a       *)
(* generated file is below 2^31, and a numpy uint32 element is kept as its *)
(* four little-endian bytes (its memory image) instead of as a number.     *)
(***************************************************************************)
EXTENDS Integers, Sequences, FiniteSets, TLC

VARIABLES
    in_file,    \* the bytes of the opened file
    pos,        \* the file cursor (in_file.tell())
    prog,       \* the entry point being run
    pc,         \* the position of the run inside that entry point
    written,    \* what the file was generated from (the known values)
    offsets,    \* the offset table held by the script / the builder
    script,     \* vk4_datapull.py's module-level results
    vk4,        \* the container under construction / returned
    todo,       \* the layers VkDirector.build has still to decode
    call,       \* the arguments of the call in progress
    ret,        \* the value returned by the last call
    outcome,    \* "running", "returned" or the exception that ended the run
    args,       \* the command line of vk4_driver.main, None outside main
    handle,     \* the file object: how often it was opened, whether it is open
    out,        \* what vk4out.output_data produced, None before it is called
    earlier     \* the result of an earlier decode of the same bytes

vars ==
    <<in_file, pos, prog, pc, written, offsets, script, vk4, todo, call, ret, outcome,
      args, handle, out, earlier>>

mainvars == <<args, handle, out, earlier>>

----------------------------------------------------------------------------
(* Python values *)

None == [none |-> TRUE]

Val(x) == [v |-> x]

Min(a, b) == IF a < b THEN a ELSE b

Max(a, b) == IF a > b THEN a ELSE b

----------------------------------------------------------------------------
(* Bytes and the file object *)

Pow256(k) == CASE k = 0 -> 1 [] k = 1 -> 256 [] k = 2 -> 65536 [] OTHER -> 16777216

\* the unsigned little-endian value of at most four bytes
RECURSIVE LittleEndian(_)
LittleEndian(b) ==
    IF b = << >> THEN 0 ELSE b[1] + 256 * LittleEndian(Tail(b))

\* two's complement reading of an unsigned value of the given byte width;
\* the top byte is converted first so no intermediate exceeds 32 bits
SignedLittleEndian(b) ==
    LET n   == Len(b)
        top == IF b[n] >= 128 THEN b[n] - 256 ELSE b[n]
    IN  LittleEndian(SubSeq(b, 1, n - 1)) + top * Pow256(n - 1)

\* the little-endian two's complement bytes of v (struct.pack, numpy store)
ToBytes(v, n) == [k \in 1..n |-> (v \div Pow256(k - 1)) % 256]

\* in_file.read(n) at cursor p: the bytes returned (fewer at end of file)
FileRead(f, p, n) ==
    IF p >= Len(f) THEN << >> ELSE SubSeq(f, p + 1, Min(p + n, Len(f)))

\* the cursor after in_file.read(n) at cursor p
FileTell(f, p, n) ==
    IF p >= Len(f) THEN p ELSE Min(p + n, Len(f))

----------------------------------------------------------------------------
(* readbinary.py: struct.unpack over in_file.read(n).  Each reader gives   *)
(* [exc, val, pos]: exc = "" and the value, or the exception raised.       *)

StructSize(fmt) ==
    CASE fmt \in {"<c", "<b", "<B"} -> 1
      [] fmt \in {"<h", "<H"} -> 2
      [] fmt \in {"<i", "<I"} -> 4

struct_unpack(fmt, buf) ==
    IF Len(buf) # StructSize(fmt)
    THEN [exc |-> "struct.error", val |-> 0]
    ELSE [exc |-> "",
          val |-> CASE fmt = "<c" -> buf
                    [] fmt \in {"<b", "<h", "<i"} -> SignedLittleEndian(buf)
                    [] fmt \in {"<B", "<H", "<I"} -> LittleEndian(buf)]

ReadFmt(fmt, f, p) ==
    LET u == struct_unpack(fmt, FileRead(f, p, StructSize(fmt)))
    IN  [exc |-> u.exc, val |-> u.val, pos |-> FileTell(f, p, StructSize(fmt))]

read_char(f, p) == ReadFmt("<c", f, p)

read_int16(f, p) == ReadFmt("<h", f, p)

read_int32(f, p) == ReadFmt("<i", f, p)

read_uchar(f, p) == ReadFmt("<b", f, p)

read_uint16(f, p) == ReadFmt("<H", f, p)

read_uint32(f, p) == ReadFmt("<I", f, p)

\* k consecutive values of one format read in a loop from cursor p: the
\* values, or the exception of the first short read and the cursor it left
ReadArray(fmt, f, p, k) ==
    LET s == StructSize(fmt)
        r(i) == ReadFmt(fmt, f, p + s * (i - 1))
        \* a file of Len(f) bytes ends the loop by its (Len(f) + 1)-th read
        bad == {i \in 1..Min(k, Len(f) + 1) : r(i).exc # ""}
    IN  IF bad = {}
        THEN [exc |-> "", val |-> [i \in 1..k |-> r(i).val], pos |-> p + s * k]
        ELSE LET i == CHOOSE j \in bad : \A m \in bad : j <= m
             IN  [exc |-> r(i).exc, val |-> << >>, pos |-> r(i).pos]

\* a read loop that takes a missing byte at end of file for 0
OrdArray_ZeroAtEof(f, p, k) ==
    [exc |-> "", pos |-> p + k,
     val |-> [j \in 1..k |-> IF p + j <= Len(f) THEN f[p + j] ELSE 0]]

\* k consecutive ord(in_file.read(1)) from cursor p
OrdArray(f, p, k) ==
    IF p + k <= Len(f)
    THEN [exc |-> "", val |-> SubSeq(f, p + 1, p + k), pos |-> p + k]
    ELSE [exc |-> "TypeError", val |-> << >>, pos |-> Max(p, Len(f))]

----------------------------------------------------------------------------
(* vk4_datapull.py: the offset table *)

HeaderSize == 12

OffsetNames ==
    <<"meas_conds", "color_peak", "color_light", "light", "height",
      "clr_peak_thumb", "clr_thumb", "light_thumb", "height_thumb",
      "assembly_info", "line_measure", "line_thickness", "string_data",
      "reserved">>

OffsetIndex(n) == CHOOSE i \in 1..Len(OffsetNames) : OffsetNames[i] = n

OffsetNameSet == {OffsetNames[i] : i \in 1..Len(OffsetNames)}

\* get_offsets with the second in_file.seek(8, 1) left out
OffsetFieldPos_OneGap(p, i) ==
    p + 4 * (i - 1) + (IF i > 4 THEN 8 ELSE 0)

\* cursor of the i-th read_uint32 of get_offsets called at cursor p:
\* in_file.seek(8, 1) after 'light' (4th) and after 'height' (5th)
OffsetFieldPos(p, i) ==
    p + 4 * (i - 1) + (IF i > 4 THEN 8 ELSE 0) + (IF i > 5 THEN 8 ELSE 0)

get_offsets(f, p) ==
    LET r(i) == read_uint32(f, OffsetFieldPos(p, i))
        bad == {i \in 1..14 : r(i).exc # ""}
    IN  IF bad = {}
        THEN [exc |-> "", pos |-> r(14).pos,
              val |-> [n \in OffsetNameSet |-> r(OffsetIndex(n)).val]]
        ELSE LET i == CHOOSE j \in bad : \A m \in bad : j <= m
             IN  [exc |-> r(i).exc, pos |-> r(i).pos, val |-> None]

----------------------------------------------------------------------------
(* vk4_datapull.py: the pixel-block decoders *)

PaletteSize == 768

\* the pixel loop of a color decoder after the header h was read: an array
\* of bit_depth/8 columns, then per pixel three ord(read(1)) and the row
\* assignment (ValueError unless the array has 3 columns)
ColorPixelLoop(name, f, h, n, first, d) ==
    IF n > 0 /\ first.exc # ""
    THEN [exc |-> first.exc, pos |-> first.pos, val |-> None]
    ELSE IF n > 0 /\ h.val[3] \div 8 # 3
    THEN [exc |-> "ValueError", pos |-> first.pos, val |-> None]
    ELSE IF d.exc # "" THEN [exc |-> d.exc, pos |-> d.pos, val |-> None]
    ELSE [exc |-> "", pos |-> d.pos,
          val |-> [name |-> name, width |-> h.val[1], height |-> h.val[2],
                   bit_depth |-> h.val[3], compression |-> h.val[4],
                   data_byte_size |-> h.val[5],
                   data |-> [i \in 1..n |-> SubSeq(d.val, 3 * i - 2, 3 * i)]]]

ColorAfterHeader(name, f, h) ==
    IF h.exc # "" THEN [exc |-> h.exc, pos |-> h.pos, val |-> None]
    ELSE ColorPixelLoop(name, f, h, h.val[1] * h.val[2],
                        OrdArray(f, h.pos, 3),
                        OrdArray(f, h.pos, 3 * (h.val[1] * h.val[2])))

\* a color decoder without its in_file.seek: it reads on from the cursor
PullColor_FromCursor(name, f, off) == ColorAfterHeader(name, f, ReadArray("<I", f, pos, 5))

\* the body shared by pull_color_light and pull_color_peak: seek to off,
\* five header fields, then the pixel loop
PullColor(name, f, off) == ColorAfterHeader(name, f, ReadArray("<I", f, off, 5))

pull_color_light(f, offset_dict) == PullColor("rgb_light", f, offset_dict.color_light)

\* pull_color_peak seeking to the other color block's offset
pull_color_peak_OtherOffset(f, offset_dict) == PullColor("rgb_peak", f, offset_dict.color_light)

pull_color_peak(f, offset_dict) == PullColor("rgb_peak", f, offset_dict.color_peak)

\* storing a Python int into a numpy array element
np_store(dtype, v) ==
    CASE dtype = "uint8" -> v % 256
      [] dtype = "uint16" -> v % 65536
      [] dtype = "uint32" -> ToBytes(v, 4)
      [] dtype = "int32" -> v

\* the sample loop of a grayscale decoder after the header h and the
\* palette pal were read
GraySampleLoop(name, dtype, h, pal, n, d) ==
    IF d.exc # "" THEN [exc |-> d.exc, pos |-> d.pos, val |-> None]
    ELSE [exc |-> "", pos |-> d.pos,
          val |-> [name |-> name, width |-> h.val[1], height |-> h.val[2],
                   bit_depth |-> h.val[3], compression |-> h.val[4],
                   data_byte_size |-> h.val[5],
                   pallete_range_min |-> h.val[6],
                   pallete_range_max |-> h.val[7],
                   pallete |-> pal.val,
                   dtype |-> dtype,
                   data |-> [i \in 1..n |-> np_store(dtype, d.val[i])]]]

GrayAfterPalette(name, fmt, dtype, f, h, pal) ==
    IF pal.exc # "" THEN [exc |-> pal.exc, pos |-> pal.pos, val |-> None]
    ELSE GraySampleLoop(name, dtype, h, pal, h.val[1] * h.val[2],
                        ReadArray(fmt, f, pal.pos, h.val[1] * h.val[2]))

GrayAfterHeader(name, fmt, dtype, f, h) ==
    IF h.exc # "" THEN [exc |-> h.exc, pos |-> h.pos, val |-> None]
    ELSE GrayAfterPalette(name, fmt, dtype, f, h, OrdArray(f, h.pos, PaletteSize))

\* the body shared by pull_light_data and pull_height_data: seek to off,
\* seven header fields, 768 palette bytes, then width*height samples read
\* with fmt and stored in an array of dtype
PullGray(name, fmt, dtype, f, off) ==
    GrayAfterHeader(name, fmt, dtype, f, ReadArray("<I", f, off, 7))

pull_light_data(f, offset_dict) ==
    PullGray("light", "<H", "uint16", f, offset_dict.light)

pull_height_data(f, offset_dict) ==
    PullGray("height", "<i", "uint32", f, offset_dict.height)

----------------------------------------------------------------------------
(* The files the decoders are run on.  A file is generated from a record   *)
(* of known values in the layout of the format: 12-byte header, offset     *)
(* table, measurement conditions, string data, then the four pixel blocks. *)

MaxDim == 2

MaxBuf == 4

MeasCondsWords == 2

Dims == 0..MaxDim

ByteSamples == {0, 1, 127, 128, 255}

LowByteSamples == {0, 1, 127}

GapBytes == {0, 90, 127}

OffsetValues == {0, 84, 16909060, 2147483647}

ColorSeeds == {<<10, 20, 30>>, <<0, 200, 255>>, <<200, 0, 77>>}

LightSeeds == {0, 258, 65535}

HeightSeeds == {0, 66051, -1, 2147483647, -2147483647}

BitDepths == {24, 8, 32}

Extension == <<86, 75, 52, 95>>

Words(vals) == [j \in 1..(4 * Len(vals)) |-> ToBytes(vals[((j - 1) \div 4) + 1], 4)[((j - 1) % 4) + 1]]

Fill(n, b) == [j \in 1..n |-> b]

\* the n pixels of a color block grown from a seed triple; a channel that
\* is 0 in the seed is 0 at every pixel
ColorPixels(seed, n) ==
    [i \in 1..n |-> [c \in 1..3 |-> IF seed[c] = 0 THEN 0 ELSE (seed[c] + 40 * (i - 1)) % 256]]

LightSamples(seed, n) == [i \in 1..n |-> (seed + 255 * (i - 1)) % 65536]

HeightSamples(seed, n) == [i \in 1..n |-> IF i % 2 = 1 THEN seed ELSE -seed - 1]

Palette(k) == [j \in 1..PaletteSize |-> (7 * j + k) % 256]

ColorBlock(w, h, depth, seed) ==
    [width |-> w, height |-> h, bit_depth |-> depth, compression |-> 1,
     data_byte_size |-> 3 * w * h, data |-> ColorPixels(seed, w * h)]

GrayBlock(w, h, depth, pal, samples) ==
    [width |-> w, height |-> h, bit_depth |-> depth, compression |-> 1,
     data_byte_size |-> (depth \div 8) * w * h, pallete_range_min |-> 3,
     pallete_range_max |-> 60000, pal |-> pal, data |-> samples]

ColorBlockBytes(b) ==
    Words(<<b.width, b.height, b.bit_depth, b.compression, b.data_byte_size>>)
      \o [j \in 1..(3 * Len(b.data)) |-> b.data[((j - 1) \div 3) + 1][((j - 1) % 3) + 1]]

GrayBlockBytes(b, size) ==
    Words(<<b.width, b.height, b.bit_depth, b.compression, b.data_byte_size,
            b.pallete_range_min, b.pallete_range_max>>)
      \o Palette(b.pal)
      \o [j \in 1..(size * Len(b.data)) |->
             ToBytes(b.data[((j - 1) \div size) + 1], size)[((j - 1) % size) + 1]]

TableBytes(o, gap) ==
    Words(<<o.meas_conds, o.color_peak, o.color_light, o.light>>) \o Fill(8, gap)
      \o Words(<<o.height>>) \o Fill(8, gap)
      \o Words(<<o.clr_peak_thumb, o.clr_thumb, o.light_thumb, o.height_thumb,
                 o.assembly_info, o.line_measure, o.line_thickness,
                 o.string_data, o.reserved>>)

TableEnd == HeaderSize + 56 + 16

\* a string-data section: a u32 count of 16-bit characters, then the title
StringBytes(title) ==
    Words(<<Len(title)>>)
      \o [j \in 1..(2 * Len(title)) |-> ToBytes(title[((j - 1) \div 2) + 1], 2)[((j - 1) % 2) + 1]]

\* the known values of a file in the canonical layout
Known(dll, ftype, gap, meas, title, peak, clight, light, height) ==
    LET o_meas == TableEnd
        o_str == o_meas + 4 * Len(meas)
        o_peak == o_str + 4 + 2 * Len(title)
        o_clight == o_peak + 20 + 3 * Len(peak.data)
        o_light == o_clight + 20 + 3 * Len(clight.data)
        o_height == o_light + 28 + PaletteSize + 2 * Len(light.data)
        o_end == o_height + 28 + PaletteSize + 4 * Len(height.data)
    IN  [extension |-> Extension, dll_version |-> dll, file_type |-> ftype,
         gap |-> gap, meas_conds |-> meas, title |-> title,
         rgb_peak |-> peak, rgb_light |-> clight, light |-> light,
         height |-> height,
         offsets |-> [n \in OffsetNameSet |->
                        CASE n = "meas_conds" -> o_meas
                          [] n = "string_data" -> o_str
                          [] n = "color_peak" -> o_peak
                          [] n = "color_light" -> o_clight
                          [] n = "light" -> o_light
                          [] n = "height" -> o_height
                          [] OTHER -> 0],
         ends |-> [table |-> TableEnd, rgb_peak |-> o_clight,
                   rgb_light |-> o_light, light |-> o_height, height |-> o_end]]

\* the bytes of the file holding the known values k
FileBytes(k) ==
    k.extension \o Words(<<k.dll_version, k.file_type>>)
      \o TableBytes(k.offsets, k.gap)
      \o Words(k.meas_conds) \o StringBytes(k.title)
      \o ColorBlockBytes(k.rgb_peak) \o ColorBlockBytes(k.rgb_light)
      \o GrayBlockBytes(k.light, 2) \o GrayBlockBytes(k.height, 4)

Truncate(f, n) == SubSeq(f, 1, Min(n, Len(f)))

----------------------------------------------------------------------------
(* State shared by the entry points *)

ScriptNone ==
    [extension |-> None, dll_version |-> None, file_type |-> None,
     color_peak_data |-> None, color_light_data |-> None,
     light_data |-> None, height_data |-> None]

\* VkContainer.__init__: every attribute is None
VkContainer_init ==
    [extension |-> None, dll_version |-> None, file_type |-> None,
     offsets |-> None, measurement_conditions |-> None,
     rgb_peak_data |-> None, rgb_light_data |-> None,
     light_intensity_data |-> None, height_data |-> None,
     string_data |-> None, image_width |-> None, image_height |-> None]

\* outside main the file was opened by the caller and stays open
NoMain ==
    /\ args = None
    /\ handle = [opens |-> 1, open |-> TRUE]
    /\ out = None
    /\ earlier = None

\* the run ends: with the value returned or with the exception raised
Finish(r) ==
    /\ pos' = r.pos
    /\ ret' = IF r.exc = "" THEN Val(r.val) ELSE None
    /\ outcome' = IF r.exc = "" THEN "returned" ELSE r.exc
    /\ pc' = "done"

----------------------------------------------------------------------------
(* readbinary.py called on a buffer *)

\* buffers of at most MaxBuf bytes; a byte that can be the top byte of a
\* 4-byte read stays below 128 (32-bit model integers)
Buffers ==
    UNION {{b \in [1..n -> ByteSamples] : \A i \in 4..n : b[i] \in LowByteSamples} : n \in 0..MaxBuf}

InitReader ==
    /\ in_file \in Buffers
    /\ pos \in {0, 1}
    /\ pos <= Len(in_file)
    /\ prog = "readbinary"
    /\ pc = "call"
    /\ written = None
    /\ offsets = None
    /\ script = ScriptNone
    /\ vk4 = VkContainer_init
    /\ todo = << >>
    /\ call = None
    /\ ret = None
    /\ outcome = "running"
    /\ NoMain

CallReader(fn, r) ==
    /\ prog = "readbinary"
    /\ pc = "call"
    /\ call' = [fn |-> fn, at |-> pos]
    /\ Finish(r)
    /\ UNCHANGED <<in_file, prog, written, todo, offsets, script, vk4, mainvars>>

Call_read_char == CallReader("read_char", read_char(in_file, pos))

Call_read_int16 == CallReader("read_int16", read_int16(in_file, pos))

Call_read_int32 == CallReader("read_int32", read_int32(in_file, pos))

Call_read_uchar == CallReader("read_uchar", read_uchar(in_file, pos))

Call_read_uint16 == CallReader("read_uint16", read_uint16(in_file, pos))

Call_read_uint32 == CallReader("read_uint32", read_uint32(in_file, pos))

NextReader ==
    \/ Call_read_char
    \/ Call_read_int16
    \/ Call_read_int32
    \/ Call_read_uchar
    \/ Call_read_uint16
    \/ Call_read_uint32

SpecReader == InitReader /\ [][NextReader]_vars

\* what the name of a reader promises: its width and the signedness its
\* name states
NamedWidth(fn) ==
    CASE fn \in {"read_char", "read_uchar"} -> 1
      [] fn \in {"read_int16", "read_uint16"} -> 2
      [] fn \in {"read_int32", "read_uint32"} -> 4

NamedUnsigned(fn) == fn \in {"read_uchar", "read_uint16", "read_uint32"}

ConsumedBytes == SubSeq(in_file, call.at + 1, call.at + NamedWidth(call.fn))

\* C7: every read_* consumes exactly its width and returns the
\* little-endian integer of the signedness its name states; the unsigned
\* readers (read_uchar, read_uint16, read_uint32) never return a negative
\* value and read_uchar returns a value in 0..255.
C7_ReaderWidthAndSign ==
    (prog = "readbinary" /\ pc = "done" /\ outcome = "returned") =>
        /\ pos = call.at + NamedWidth(call.fn)
        /\ call.fn # "read_char" =>
              ret.v = IF NamedUnsigned(call.fn)
                      THEN LittleEndian(ConsumedBytes)
                      ELSE SignedLittleEndian(ConsumedBytes)
        /\ NamedUnsigned(call.fn) => ret.v >= 0
        /\ call.fn = "read_uchar" => ret.v \in 0..255

----------------------------------------------------------------------------
(* get_offsets called on an opened file: at cursor 0 or after the header   *)
(* was read (vk4_datapull.py lines 51-53, VK4container.py lines 30-32)     *)

\* an offset table holding base everywhere but special in entry k
TableValues(base, k, special) ==
    [n \in OffsetNameSet |-> IF OffsetIndex(n) = k THEN special ELSE base]

HeaderBytes(k) == k.extension \o Words(<<k.dll_version, k.file_type>>)

InitOffsets ==
    /\ \E base \in OffsetValues, special \in OffsetValues, k \in 1..14,
          gap \in GapBytes, dll \in {3, 262144} :
          /\ written = [extension |-> Extension, dll_version |-> dll,
                        file_type |-> 0, gap |-> gap,
                        offsets |-> TableValues(base, k, special)]
          /\ in_file = HeaderBytes(written) \o TableBytes(written.offsets, gap)
    /\ pos = 0
    /\ prog = "get_offsets"
    /\ pc = "opened"
    /\ offsets = None
    /\ script = ScriptNone
    /\ vk4 = VkContainer_init
    /\ todo = << >>
    /\ call = None
    /\ ret = None
    /\ outcome = "running"
    /\ NoMain

\* extension = in_file.read(4); dll_version, file_type = read_uint32
ReadHeaderAt(f, p) ==
    LET e == FileRead(f, p, 4)
        d == read_uint32(f, FileTell(f, p, 4))
        t == read_uint32(f, d.pos)
    IN  IF d.exc # "" THEN [exc |-> d.exc, pos |-> d.pos, val |-> None]
        ELSE IF t.exc # "" THEN [exc |-> t.exc, pos |-> t.pos, val |-> None]
        ELSE [exc |-> "", pos |-> t.pos,
              val |-> [extension |-> e, dll_version |-> d.val, file_type |-> t.val]]

ReadHeader ==
    /\ prog = "get_offsets"
    /\ pc = "opened"
    /\ LET r == ReadHeaderAt(in_file, pos)
       IN  /\ pos' = r.pos
           /\ pc' = IF r.exc = "" THEN "header_read" ELSE "done"
           /\ outcome' = IF r.exc = "" THEN "running" ELSE r.exc
           /\ script' = IF r.exc = "" THEN
                            [script EXCEPT !.extension = Val(r.val.extension),
                                           !.dll_version = Val(r.val.dll_version),
                                           !.file_type = Val(r.val.file_type)]
                        ELSE script
    /\ UNCHANGED <<in_file, prog, written, todo, offsets, vk4, call, ret, mainvars>>

CallGetOffsets ==
    /\ prog = "get_offsets"
    /\ pc \in {"opened", "header_read"}
    /\ call' = [fn |-> "get_offsets", at |-> pos]
    /\ Finish(get_offsets(in_file, pos))
    /\ UNCHANGED <<in_file, prog, written, todo, offsets, script, vk4, mainvars>>

NextOffsets ==
    \/ ReadHeader
    \/ CallGetOffsets

SpecOffsets == InitOffsets /\ [][NextOffsets]_vars

GetOffsetsDone == prog = "get_offsets" /\ pc = "done" /\ call # None

\* C1: the 14 values written at the documented positions (from byte 12,
\* an 8-byte gap after light and after height) come back from the offset
\* decoder under their names, whatever the gaps hold.
C1_OffsetRoundTrip ==
    (GetOffsetsDone /\ call.at = HeaderSize) =>
        /\ outcome = "returned"
        /\ ret.v = written.offsets
        /\ pos = TableEnd

C1_Witness ==
    /\ GetOffsetsDone /\ call.at = HeaderSize
    /\ written.gap # 0
    /\ ret.v.height = 2147483647 /\ ret.v.clr_peak_thumb = 84

\* C2: the table the offset decoder returns does not depend on the cursor
\* at the time of the call: called at cursor 0 it returns the values
\* written at byte 12, as it does when called after the header was read.
C2_OffsetsCursorIndependent ==
    GetOffsetsDone => (outcome = "returned" /\ ret.v = written.offsets)

----------------------------------------------------------------------------
(* vk4_datapull.py run as a script: the header (lines 51-53), get_offsets  *)
(* (line 234), then the four pull_* decoders; the decoders are also        *)
(* callable in any order once the offsets are known                        *)

DimPairs == Dims \X Dims

FewDimPairs == {<<0, 1>>, <<1, 1>>, <<MaxDim, 1>>}

Sections == {"table", "rgb_peak", "rgb_light", "light", "height"}

Cuts == [section : Sections, delta : {0, -1}]

FullCut == [section |-> "height", delta |-> 0]

Scenario(d1, d2, cseed, lseed, hseed, depth, cut) ==
    [d1 |-> d1, d2 |-> d2, cseed |-> cseed, lseed |-> lseed, hseed |-> hseed,
     depth |-> depth, cut |-> cut]

\* the files tried: every pair of block shapes, every pixel content, every
\* declared bit depth, every section cut at its end and one byte short
Scenarios ==
    {Scenario(d1, d2, <<10, 20, 30>>, 258, -1, 24, FullCut) : d1 \in DimPairs, d2 \in DimPairs}
      \cup {Scenario(<<MaxDim, 1>>, <<1, MaxDim>>, c, l, h, 24, FullCut) :
               c \in ColorSeeds, l \in LightSeeds, h \in HeightSeeds}
      \cup {Scenario(d1, <<1, 1>>, <<10, 20, 30>>, 258, -1, depth, FullCut) :
               d1 \in FewDimPairs, depth \in BitDepths}
      \cup {Scenario(d1, d2, <<10, 20, 30>>, 258, -1, 24, cut) :
               d1 \in FewDimPairs, d2 \in FewDimPairs, cut \in Cuts}

\* peak is d1, color light is d2, and the two grayscale blocks mix them so
\* that the four shapes differ whenever d1 and d2 differ in both fields
KnownOf(sc) ==
    Known(3, 0, 90, [i \in 1..MeasCondsWords |-> 1000 + i], <<86, 75>>,
          ColorBlock(sc.d1[1], sc.d1[2], sc.depth, sc.cseed),
          ColorBlock(sc.d2[1], sc.d2[2], sc.depth, <<sc.cseed[3], sc.cseed[1], sc.cseed[2]>>),
          GrayBlock(sc.d2[1], sc.d1[2], 16, 1, LightSamples(sc.lseed, sc.d2[1] * sc.d1[2])),
          GrayBlock(sc.d1[1], sc.d2[2], 32, 2, HeightSamples(sc.hseed, sc.d1[1] * sc.d2[2])))

FileOf(sc) ==
    LET k == KnownOf(sc)
    IN  Truncate(FileBytes(k), k.ends[sc.cut.section] + sc.cut.delta)

\* an opened file of the set S of scenarios, nothing decoded yet
InitFileIn(S) ==
    /\ \E sc \in S :
          /\ written = KnownOf(sc)
          /\ in_file = FileOf(sc)
    /\ pos = 0
    /\ pc = "opened"
    /\ offsets = None
    /\ script = ScriptNone
    /\ vk4 = VkContainer_init
    /\ todo = << >>
    /\ call = None
    /\ ret = None
    /\ outcome = "running"
    /\ NoMain

InitFile == InitFileIn(Scenarios)

InitBlocks == InitFile /\ prog = "vk4_datapull"

\* a step of the script: it goes on after a return and dies on an exception
ScriptStep(fn, r, next) ==
    /\ call' = [fn |-> fn, at |-> pos]
    /\ pos' = r.pos
    /\ ret' = IF r.exc = "" THEN Val(r.val) ELSE None
    /\ outcome' = IF r.exc = "" THEN "running" ELSE r.exc
    /\ pc' = IF r.exc = "" THEN next ELSE "done"
    /\ UNCHANGED <<in_file, prog, written, todo, vk4, mainvars>>

ScriptHeader ==
    /\ prog = "vk4_datapull"
    /\ pc = "opened"
    /\ LET r == ReadHeaderAt(in_file, pos)
       IN  /\ ScriptStep("header", r, "header_read")
           /\ script' = IF r.exc = "" THEN
                            [script EXCEPT !.extension = Val(r.val.extension),
                                           !.dll_version = Val(r.val.dll_version),
                                           !.file_type = Val(r.val.file_type)]
                        ELSE script
    /\ UNCHANGED offsets

ScriptGetOffsets ==
    /\ prog = "vk4_datapull"
    /\ pc = "header_read"
    /\ LET r == get_offsets(in_file, pos)
       IN  /\ ScriptStep("get_offsets", r, "offsets_read")
           /\ offsets' = r.val
    /\ UNCHANGED script

ScriptPull(fn, field, r) ==
    /\ prog = "vk4_datapull"
    /\ pc = "offsets_read"
    /\ ScriptStep(fn, r, "offsets_read")
    /\ script' = IF r.exc = "" THEN [script EXCEPT ![field] = r.val] ELSE script
    /\ UNCHANGED offsets

Script_pull_color_peak ==
    ScriptPull("pull_color_peak", "color_peak_data", pull_color_peak(in_file, offsets))

Script_pull_color_light ==
    ScriptPull("pull_color_light", "color_light_data", pull_color_light(in_file, offsets))

Script_pull_light_data ==
    ScriptPull("pull_light_data", "light_data", pull_light_data(in_file, offsets))

Script_pull_height_data ==
    ScriptPull("pull_height_data", "height_data", pull_height_data(in_file, offsets))

NextBlocks ==
    \/ ScriptHeader
    \/ ScriptGetOffsets
    \/ Script_pull_color_peak
    \/ Script_pull_color_light
    \/ Script_pull_light_data
    \/ Script_pull_height_data

SpecBlocks == InitBlocks /\ [][NextBlocks]_vars

\* the section a decoder reads, as it is named in the known values
SectionOf(fn) ==
    CASE fn = "get_offsets" -> "table"
      [] fn = "pull_color_peak" -> "rgb_peak"
      [] fn = "pull_color_light" -> "rgb_light"
      [] fn = "pull_light_data" -> "light"
      [] fn = "pull_height_data" -> "height"

OffsetKeyOf(fn) ==
    CASE fn = "pull_color_peak" -> "color_peak"
      [] fn = "pull_color_light" -> "color_light"
      [] fn = "pull_light_data" -> "light"
      [] fn = "pull_height_data" -> "height"

ColorPulls == {"pull_color_peak", "pull_color_light"}

GrayPulls == {"pull_light_data", "pull_height_data"}

JustCalled(fns) == prog = "vk4_datapull" /\ call # None /\ call.fn \in fns

\* C3: a color decoder (peak or light) run on a 24-bit block of width W
\* and height H leaves the cursor at block offset + 20 + 3*W*H and returns
\* W*H triples, pixel i being the bytes at block offset 20+3i, 20+3i+1,
\* 20+3i+2 in (R, G, B) order; it returns whenever those bytes are there.
C3_ColorBlockShape ==
    JustCalled(ColorPulls) =>
        LET b == written[SectionOf(call.fn)]
            off == written.offsets[OffsetKeyOf(call.fn)]
            n == b.width * b.height
        IN  /\ ret # None =>
                  /\ pos = off + 20 + 3 * n
                  /\ Len(ret.v.data) = n
                  /\ ret.v.data = b.data
                  /\ \A i \in 0..(n - 1) :
                        ret.v.data[i + 1] = <<in_file[off + 20 + 3 * i + 1],
                                              in_file[off + 20 + 3 * i + 2],
                                              in_file[off + 20 + 3 * i + 3]>>
            /\ (b.bit_depth = 24 /\ Len(in_file) >= off + 20 + 3 * n) => ret # None

C3_Witness ==
    /\ JustCalled({"pull_color_light"})
    /\ ret # None
    /\ written.rgb_light.width = MaxDim /\ written.rgb_light.height = MaxDim
    /\ written.rgb_peak.width = 1
    /\ ret.v.data[2] = <<70, 50, 60>>

\* the number held by a numpy element equals s
NpValueIs(dtype, e, s) ==
    IF dtype = "uint32" THEN e[4] < 128 /\ LittleEndian(e) = s ELSE e = s

\* C4: a grayscale decoder consumes 28 + 768 + 2*W*H bytes (light) or
\* 28 + 768 + 4*W*H bytes (height), keeps the 768 palette bytes verbatim
\* and returns W*H samples, each the unsigned 16-bit (light) or signed
\* 32-bit (height) value stored in the file: a negative height stays
\* negative.
C4_GrayBlockShape ==
    (JustCalled(GrayPulls) /\ ret # None) =>
        LET b == written[SectionOf(call.fn)]
            off == written.offsets[OffsetKeyOf(call.fn)]
            n == b.width * b.height
            size == IF call.fn = "pull_light_data" THEN 2 ELSE 4
        IN  /\ pos = off + 28 + PaletteSize + size * n
            /\ ret.v.pallete = Palette(b.pal)
            /\ Len(ret.v.data) = n
            /\ \A i \in 1..n : NpValueIs(ret.v.dtype, ret.v.data[i], b.data[i])

TruncatedInputError == {"struct.error", "TypeError"}

\* C6: for the offset table, a 24-bit color block and a grayscale block
\* ending at byte N, decoding a file of N-1 bytes ends in a short-read
\* error with no section value, and decoding a file of N bytes returns.
C6_TruncationBoundary ==
    (JustCalled(ColorPulls \cup GrayPulls \cup {"get_offsets"})
       /\ (call.fn \in ColorPulls => written[SectionOf(call.fn)].bit_depth = 24)) =>
        LET N == written.ends[SectionOf(call.fn)]
        IN  /\ Len(in_file) = N - 1 =>
                  /\ outcome \in TruncatedInputError
                  /\ ret = None
                  /\ pc = "done"
            /\ Len(in_file) = N => (outcome = "running" /\ ret # None)

C6_Witness ==
    /\ JustCalled({"pull_color_peak"})
    /\ Len(in_file) = written.ends.rgb_peak - 1
    /\ written.rgb_peak.width = MaxDim
    /\ outcome = "TypeError"
    /\ script.color_peak_data = None

----------------------------------------------------------------------------
(* vk4extract, the decoder module the containers call.  Its contracts:     *)
(* the offset table is read after a seek to byte 12; the color decoder     *)
(* takes a selector peak | light; the grayscale decoder takes a selector   *)
(* height | light and, as shipped, seeks to the height offset for both.    *)

extract_offsets(f) == get_offsets(f, HeaderSize)

extract_measurement_conditions(offset_dict, f) ==
    LET r == ReadArray("<I", f, offset_dict.meas_conds, MeasCondsWords)
    IN  [exc |-> r.exc, pos |-> r.pos,
         val |-> IF r.exc = "" THEN [fields |-> r.val] ELSE None]

extract_color_data(offset_dict, rgb_type, f) ==
    IF rgb_type = "peak"
    THEN PullColor("RGB peak", f, offset_dict.color_peak)
    ELSE PullColor("RGB light", f, offset_dict.color_light)

\* the offset the grayscale decoder seeks to for a selector
ImgSeekOffset(offset_dict, img_type) ==
    CASE img_type = "height" -> offset_dict.height
      [] img_type = "light" -> offset_dict.height

extract_img_data(offset_dict, img_type, f) ==
    IF img_type = "height"
    THEN PullGray("height", "<i", "int32", f, ImgSeekOffset(offset_dict, img_type))
    ELSE PullGray("light", "<H", "uint16", f, ImgSeekOffset(offset_dict, img_type))

extract_string_data(offset_dict, f) ==
    LET c == read_uint32(f, offset_dict.string_data)
        t == ReadArray("<H", f, c.pos, c.val)
    IN  IF c.exc # "" THEN [exc |-> c.exc, pos |-> c.pos, val |-> None]
        ELSE [exc |-> t.exc, pos |-> t.pos,
              val |-> IF t.exc = "" THEN [title |-> t.val] ELSE None]

----------------------------------------------------------------------------
(* VkContainer.py: the builders and the director *)

Builders ==
    {"Vk4Builder", "Vk4BuilderRGBpeak", "Vk4BuilderRGBlight", "Vk4BuilderHeight",
     "Vk4BuilderLight"}

\* build_options with the layers of the two grayscale builders exchanged
build_options_Exchanged(builder) ==
    CASE builder = "Vk4Builder" -> <<"rgb_peak", "rgb_light", "height", "light">>
      [] builder = "Vk4BuilderRGBpeak" -> <<"rgb_peak">>
      [] builder = "Vk4BuilderRGBlight" -> <<"rgb_light">>
      [] builder = "Vk4BuilderHeight" -> <<"light">>
      [] builder = "Vk4BuilderLight" -> <<"height">>

\* build_options of VkDirector.build
build_options(builder) ==
    CASE builder = "Vk4Builder" -> <<"rgb_peak", "rgb_light", "height", "light">>
      [] builder = "Vk4BuilderRGBpeak" -> <<"rgb_peak">>
      [] builder = "Vk4BuilderRGBlight" -> <<"rgb_light">>
      [] builder = "Vk4BuilderHeight" -> <<"height">>
      [] builder = "Vk4BuilderLight" -> <<"light">>

\* Vk4BuilderLight and Vk4BuilderHeight without their overrides: every
\* builder reads the dimensions the base class reads
DimensionSource_BaseOnly(builder) ==
    CASE builder \in {"Vk4Builder", "Vk4BuilderRGBpeak", "Vk4BuilderHeight",
                      "Vk4BuilderLight"} -> "rgb_peak_data"
      [] builder = "Vk4BuilderRGBlight" -> "rgb_light_data"

\* the container attribute image_height() / image_width() of a builder read
DimensionSource(builder) ==
    CASE builder \in {"Vk4Builder", "Vk4BuilderRGBpeak"} -> "rgb_peak_data"
      [] builder = "Vk4BuilderRGBlight" -> "rgb_light_data"
      [] builder = "Vk4BuilderHeight" -> "height_data"
      [] builder = "Vk4BuilderLight" -> "light_intensity_data"

\* a step of the builder or the director: the run goes on to next after a
\* return and ends on an exception
BuildStep(fn, r, next) ==
    /\ prog \in Builders
    /\ call' = [fn |-> fn, at |-> pos]
    /\ pos' = r.pos
    /\ outcome' = IF r.exc = "" THEN "running" ELSE r.exc
    /\ pc' = IF r.exc = "" THEN next ELSE "done"
    /\ UNCHANGED <<in_file, prog, written, script, ret, mainvars>>

\* Vk4Builder.__init__
Vk4Builder_init ==
    /\ pc = "opened"
    /\ LET r == extract_offsets(in_file)
       IN  /\ BuildStep("__init__", r, "build")
           /\ offsets' = r.val
    /\ vk4' = VkContainer_init
    /\ UNCHANGED todo

\* VkDirector.build up to builder.get_offsets()
Build_get_offsets ==
    /\ pc = "build"
    /\ BuildStep("get_offsets", [exc |-> "", pos |-> pos], "meas_conds")
    /\ todo' = build_options(prog)
    /\ vk4' = [vk4 EXCEPT !.offsets = offsets]
    /\ UNCHANGED offsets

\* a builder method that stores what a decoder returns in an attribute
BuildSet(fn, field, r, next) ==
    /\ BuildStep(fn, r, next)
    /\ vk4' = IF r.exc = "" THEN [vk4 EXCEPT ![field] = r.val] ELSE vk4
    /\ UNCHANGED offsets

Build_meas_conds ==
    /\ pc = "meas_conds"
    /\ BuildSet("meas_conds", "measurement_conditions",
                extract_measurement_conditions(offsets, in_file), "string_data")
    /\ UNCHANGED todo

Build_string_data ==
    /\ pc = "string_data"
    /\ BuildSet("string_data", "string_data",
                extract_string_data(offsets, in_file), "layers")
    /\ UNCHANGED todo

BuildLayer(layer, field, r) ==
    /\ pc = "layers"
    /\ todo # << >>
    /\ Head(todo) = layer
    /\ BuildSet(layer, field, r, "layers")
    /\ todo' = Tail(todo)

Build_rgb_peak ==
    BuildLayer("rgb_peak", "rgb_peak_data", extract_color_data(offsets, "peak", in_file))

Build_rgb_light ==
    BuildLayer("rgb_light", "rgb_light_data", extract_color_data(offsets, "light", in_file))

Build_light ==
    BuildLayer("light", "light_intensity_data", extract_img_data(offsets, "light", in_file))

Build_height ==
    BuildLayer("height", "height_data", extract_img_data(offsets, "height", in_file))

\* self.vk4.<attribute>[key]: TypeError when the attribute is None
Subscript(c, field, key) ==
    IF c[field] = None
    THEN [exc |-> "TypeError", pos |-> pos, val |-> None]
    ELSE [exc |-> "", pos |-> pos, val |-> Val(c[field][key])]

Build_image_height ==
    /\ pc = "layers"
    /\ todo = << >>
    /\ BuildSet("image_height", "image_height",
                Subscript(vk4, DimensionSource(prog), "height"), "image_width")
    /\ UNCHANGED todo

Build_image_width ==
    /\ pc = "image_width"
    /\ BuildSet("image_width", "image_width",
                Subscript(vk4, DimensionSource(prog), "width"), "get_result")
    /\ UNCHANGED todo

\* return self.builder.get_result()
Build_get_result ==
    /\ pc = "get_result"
    /\ prog \in Builders
    /\ call' = [fn |-> "get_result", at |-> pos]
    /\ ret' = Val("self.vk4")
    /\ outcome' = "returned"
    /\ pc' = "built"
    /\ UNCHANGED <<in_file, pos, prog, written, offsets, script, vk4, todo, mainvars>>

----------------------------------------------------------------------------
(* VK4container.py: the constructor decodes everything *)

\* the first failure of a sequence of decode results, or the last result
RECURSIVE FirstFailure(_)
FirstFailure(rs) ==
    IF Len(rs) = 1 \/ rs[1].exc # "" THEN rs[1] ELSE FirstFailure(Tail(rs))

\* lines 34-48: the sections decoded in the constructor's order, with the
\* header hd and the offsets of already read
VK4container_sections(hd, of, f) ==
    <<extract_measurement_conditions(of, f),
      extract_color_data(of, "peak", f),
      extract_color_data(of, "light", f),
      extract_img_data(of, "light", f),
      extract_img_data(of, "height", f),
      extract_string_data(of, f)>>

VK4container_fields(hd, of, rs) ==
    [extension |-> Val(hd.extension), dll_version |-> Val(hd.dll_version),
     file_type |-> Val(hd.file_type), offsets |-> of,
     measurement_conditions |-> rs[1].val, rgb_peak_data |-> rs[2].val,
     rgb_light_data |-> rs[3].val, light_intensity_data |-> rs[4].val,
     height_data |-> rs[5].val, string_data |-> rs[6].val,
     image_width |-> Val(rs[3].val.width), image_height |-> Val(rs[3].val.height)]

\* the constructor ends: r is its first failure or its last decode
VK4container_end(r, fields) ==
    /\ pos' = r.pos
    /\ outcome' = IF r.exc = "" THEN "returned" ELSE r.exc
    /\ pc' = IF r.exc = "" THEN "built" ELSE "done"
    /\ vk4' = IF r.exc = "" THEN fields ELSE vk4
    /\ offsets' = IF r.exc = "" THEN fields.offsets ELSE offsets
    /\ ret' = IF r.exc = "" THEN Val("self") ELSE None

VK4container_init ==
    /\ prog = "VK4container"
    /\ pc = "opened"
    /\ \E hd \in {ReadHeaderAt(in_file, pos)}, of \in {extract_offsets(in_file)} :
          IF hd.exc # "" THEN VK4container_end(hd, None)
          ELSE IF of.exc # "" THEN VK4container_end(of, None)
          ELSE \E rs \in {VK4container_sections(hd.val, of.val, in_file)} :
                  \E r \in {FirstFailure(rs)} :
                     VK4container_end(r, IF r.exc = "" THEN VK4container_fields(hd.val, of.val, rs) ELSE None)
    /\ call' = [fn |-> "__init__", at |-> pos]
    /\ UNCHANGED <<in_file, prog, written, script, todo, mainvars>>

----------------------------------------------------------------------------
(* get_single_color_values of VkContainer and of VK4container *)

\* the container attributes that hold the array of a decoded block
BlockFields == {"rgb_peak_data", "rgb_light_data", "light_intensity_data", "height_data"}

\* np.zeros handing back arr, the array the caller's loop reads from
np_zeros_InPlace(arr) == arr

\* np.zeros: the array a function fills and returns is a new one, none of
\* the container's (arr is the array the caller's loop reads from)
np_zeros(arr) == "new"

\* the container after a call has filled the array ref with val: it has
\* changed where ref is one of its own arrays
Store(c, ref, val) ==
    IF ref \in BlockFields /\ c[ref] # None THEN [c EXCEPT ![ref].data = val] ELSE c

\* lines 73-79: color_array, the array the accessor fills and returns
color_array_ref(rgb_type) ==
    np_zeros(IF rgb_type = "peak" THEN "rgb_peak_data" ELSE "rgb_light_data")

Colors == {"red", "green", "blue", "purple"}

RgbTypes == {"peak", "light", "thumb"}

color_dict(color) == CASE color = "red" -> 1 [] color = "green" -> 2 [] color = "blue" -> 3

\* the array color_array after the loop over the n rows of rgb_array
SingleColorArray(rows, rgb_array, col) ==
    [i \in 1..rows |->
        [c \in 1..3 |-> IF c = col /\ i <= Len(rgb_array) THEN rgb_array[i][c] ELSE 0]]

get_single_color_values(c, color, rgb_type) ==
    IF c.image_width = None \/ c.image_height = None
    THEN [exc |-> "TypeError", val |-> None]
    ELSE IF rgb_type \notin {"peak", "light"}
    THEN [exc |-> "", val |-> None]
    ELSE LET rows == c.image_width.v * c.image_height.v
             block == IF rgb_type = "peak" THEN c.rgb_peak_data ELSE c.rgb_light_data
         IN  IF block = None THEN [exc |-> "TypeError", val |-> None]
             ELSE IF color \notin {"red", "green", "blue"}
             THEN [exc |-> "KeyError", val |-> None]
             ELSE IF Len(block.data) > rows
             THEN [exc |-> "IndexError", val |-> None]
             ELSE [exc |-> "", val |-> SingleColorArray(rows, block.data, color_dict(color))]

Call_get_single_color_values ==
    /\ pc = "built"
    /\ \E color \in Colors, rgb_type \in RgbTypes :
          LET r == get_single_color_values(vk4, color, rgb_type)
          IN  /\ call' = [fn |-> "get_single_color_values", at |-> pos,
                          color |-> color, rgb_type |-> rgb_type]
              /\ \E ref \in {IF r.exc = "" /\ rgb_type \in {"peak", "light"}
                             THEN color_array_ref(rgb_type) ELSE ""} :
                    /\ ret' = IF r.exc = "" THEN [v |-> r.val, ref |-> ref] ELSE None
                    /\ vk4' = Store(vk4, ref, r.val)
              /\ outcome' = IF r.exc = "" THEN "returned" ELSE r.exc
    /\ UNCHANGED <<in_file, pos, prog, pc, written, offsets, script, todo, mainvars>>

----------------------------------------------------------------------------
(* The containers: a builder run by the director, or VK4container, on an   *)
(* opened file, then the accessor called on the container returned         *)

Init == InitFile /\ prog \in Builders \cup {"VK4container"}

Next ==
    \/ Vk4Builder_init
    \/ Build_get_offsets
    \/ Build_meas_conds
    \/ Build_string_data
    \/ Build_rgb_peak
    \/ Build_rgb_light
    \/ Build_height
    \/ Build_light
    \/ Build_image_height
    \/ Build_image_width
    \/ Build_get_result
    \/ VK4container_init
    \/ Call_get_single_color_values

Spec == Init /\ [][Next]_vars

Built == pc = "built"

\* C5: in a container whose file has different light and height offsets,
\* light_intensity_data is decoded from the light offset and height_data
\* from the height offset: each holds the block stored at its own offset.
C5_DistinctGrayOffsets ==
    (Built /\ written.offsets.light # written.offsets.height) =>
        /\ vk4.height_data # None =>
              /\ ImgSeekOffset(vk4.offsets, "height") = written.offsets.height
              /\ vk4.height_data.width = written.height.width
              /\ vk4.height_data.height = written.height.height
              /\ vk4.height_data.data = written.height.data
        /\ vk4.light_intensity_data # None =>
              /\ ImgSeekOffset(vk4.offsets, "light") = written.offsets.light
              /\ vk4.light_intensity_data.width = written.light.width
              /\ vk4.light_intensity_data.height = written.light.height
              /\ vk4.light_intensity_data.data = written.light.data

ContainerFields ==
    {"extension", "dll_version", "file_type", "offsets", "measurement_conditions",
     "rgb_peak_data", "rgb_light_data", "light_intensity_data", "height_data",
     "image_width", "image_height"}

\* C8: a container returned by a successful assembly holds the file
\* header (extension, DLL version, file type), the offset table, the
\* measurement conditions, both color blocks, both grayscale blocks and
\* the image width and height: none of them is None.
C8_ContainerComplete ==
    Built => \A field \in ContainerFields : vk4[field] # None

C10_ChannelIsolation ==
    (Built /\ call.fn = "get_single_color_values"
       /\ call.color \in {"red", "green", "blue"}
       /\ call.rgb_type \in {"peak", "light"}
       /\ vk4[IF call.rgb_type = "peak" THEN "rgb_peak_data" ELSE "rgb_light_data"] # None) =>
        LET src == vk4[IF call.rgb_type = "peak" THEN "rgb_peak_data" ELSE "rgb_light_data"].data
            col == color_dict(call.color)
        IN  /\ outcome = "returned"
            /\ Len(ret.v) = Len(src)
            /\ \A i \in 1..Len(src) : \A c \in 1..3 :
                  ret.v[i][c] = IF c = col THEN src[i][c] ELSE 0

\* the exceptions by which Python reports a name outside an enumerated set
UnknownNameError == {"KeyError", "ValueError"}

\* C11: get_single_color_values called with a block name outside peak,
\* light ends in an error and returns no value, not even None; called with
\* a channel outside red, green, blue on a block the container holds it
\* ends in an error too.
C11_InvalidArgumentsFail ==
    (Built /\ call # None /\ call.fn = "get_single_color_values") =>
        /\ call.rgb_type \notin {"peak", "light"} =>
              (outcome \in UnknownNameError /\ ret = None)
        /\ (call.color \notin {"red", "green", "blue"}
              /\ call.rgb_type \in {"peak", "light"}
              /\ vk4[IF call.rgb_type = "peak" THEN "rgb_peak_data" ELSE "rgb_light_data"] # None) =>
              (outcome \in UnknownNameError /\ ret = None)

----------------------------------------------------------------------------
(* vk4out.py: the output stage.  A layer string is a sequence of letters.  *)
(* Every operation gives [exc, val]: exc = "" and the array returned, or   *)
(* the exception raised.                                                   *)

\* the keys of layer_dict
layer_dict_keys ==
    {<<"R">>, <<"G">>, <<"B">>, <<"R", "L">>, <<"G", "L">>, <<"B", "L">>}

\* layer_dict[lay]: the channel and the color block of a key
layer_dict(lay) ==
    [color |-> CASE lay[1] = "R" -> "red" [] lay[1] = "G" -> "green" [] lay[1] = "B" -> "blue",
     rgb_type |-> IF Len(lay) = 2 THEN "light" ELSE "peak"]

\* width * height of the container: TypeError when a dimension is None
ImageSize(c) ==
    IF c.image_width = None \/ c.image_height = None
    THEN [exc |-> "TypeError", val |-> 0]
    ELSE [exc |-> "", val |-> c.image_width.v * c.image_height.v]

\* the first layer of layer_list with more rows than the result array
TooLong(layer_list, rows) ==
    \E k \in 1..Len(layer_list) : Len(layer_list[k]) > rows

\* the sum of the three channel bytes, without the shifts
CompositeValue_ByteSum(rgb) == rgb[1] + rgb[2] + rgb[3]

\* (rgb[0] << 16) + (rgb[1] << 8) + rgb[2]; the operands are numpy scalars
\* and a Python int, which numpy 1.x adds and shifts as 64-bit integers
CompositeValue(rgb) == rgb[1] * 65536 + rgb[2] * 256 + rgb[3]

\* comp_rgb_array[i] after the loop over the layers (below 2^31 for the
\* layer lists tried; the element type is uint32)
RECURSIVE CompositeSum(_, _)
CompositeSum(layer_list, i) ==
    IF layer_list = << >> THEN 0
    ELSE (IF i <= Len(Head(layer_list)) THEN CompositeValue(Head(layer_list)[i]) ELSE 0)
           + CompositeSum(Tail(layer_list), i)

create_composite_rgb_values(c, layer_list) ==
    IF ImageSize(c).exc # "" THEN [exc |-> ImageSize(c).exc, val |-> None]
    ELSE IF TooLong(layer_list, ImageSize(c).val) THEN [exc |-> "IndexError", val |-> None]
    ELSE [exc |-> "",
          val |-> [i \in 1..ImageSize(c).val |-> CompositeSum(layer_list, i)]]

\* new_array[i][ch] after the loop over the layers: uint8 += uint8 wraps
RECURSIVE ChannelSum(_, _, _)
ChannelSum(layer_list, i, ch) ==
    IF layer_list = << >> THEN 0
    ELSE ((IF i <= Len(Head(layer_list)) THEN Head(layer_list)[i][ch] ELSE 0)
            + ChannelSum(Tail(layer_list), i, ch)) % 256

create_array_from_rgb_layers(c, layer_list) ==
    IF ImageSize(c).exc # "" THEN [exc |-> ImageSize(c).exc, val |-> None]
    ELSE IF TooLong(layer_list, ImageSize(c).val) THEN [exc |-> "IndexError", val |-> None]
    ELSE [exc |-> "",
          val |-> [i \in 1..ImageSize(c).val |->
                     [ch \in 1..3 |-> ChannelSum(layer_list, i, ch)]]]

\* layers[x:x + step] for x in range(0, len(layers), step)
Tokens(layers, step) ==
    [k \in 1..((Len(layers) + step - 1) \div step) |->
        SubSeq(layers, (step * (k - 1)) + 1, Min(step * k, Len(layers)))]

\* the loop body with a 'continue' after log.error: an invalid layer is
\* reported and left out
holder_append_Skip(c, lay) ==
    IF lay \notin layer_dict_keys THEN [exc |-> "", val |-> << >>]
    ELSE get_single_color_values(c, layer_dict(lay).color, layer_dict(lay).rgb_type)

\* one pass of the loop of get_data_from_layers: log.error does not leave
\* the loop, so layer_dict[lay] raises KeyError for an invalid layer
holder_append(c, lay) ==
    IF lay \notin layer_dict_keys THEN [exc |-> "KeyError", val |-> None]
    ELSE get_single_color_values(c, layer_dict(lay).color, layer_dict(lay).rgb_type)

\* the list holder, or the first exception of the loop
Holder(c, toks) ==
    LET bad == {k \in 1..Len(toks) : holder_append(c, toks[k]).exc # ""}
    IN  IF bad = {}
        THEN [exc |-> "", val |-> [k \in 1..Len(toks) |-> holder_append(c, toks[k]).val]]
        ELSE [exc |-> holder_append(c, toks[CHOOSE j \in bad : \A m \in bad : j <= m]).exc,
              val |-> None]

\* lines 89-91 and 113-115: comp_rgb_array / new_array, the array the two
\* create_ functions fill and return; layer_refs are the arrays of layer_list
created_ref(layer_refs) ==
    np_zeros(IF layer_refs = << >> THEN "new" ELSE layer_refs[1])

\* the arrays of the list holder
HolderRefs(toks) ==
    [k \in 1..Len(toks) |->
        IF toks[k] \in layer_dict_keys THEN color_array_ref(layer_dict(toks[k]).rgb_type)
        ELSE ""]

get_data_from_layers(c, layers, step, is_image) ==
    LET h == Holder(c, Tokens(layers, step))
    IN  IF h.exc # "" THEN h
        ELSE IF is_image THEN create_array_from_rgb_layers(c, h.val)
        ELSE create_composite_rgb_values(c, h.val)

OutputTypes == {"csv", "hcsv", "jpeg", "png", "tiff"}

is_image_dict(type) == type \in {"jpeg", "png", "tiff"}

\* 'L'.join(s) + 'L': an L after every letter of s
JoinL(s) ==
    IF s = << >> THEN <<"L">>
    ELSE [j \in 1..(2 * Len(s)) |-> IF j % 2 = 1 THEN s[(j + 1) \div 2] ELSE "L"]

\* the container attributes the layers of get_data_from_layers read
BlocksRead(toks) ==
    {IF Len(toks[k]) = 2 THEN "rgb_light_data" ELSE "rgb_peak_data" :
        k \in {j \in 1..Len(toks) : toks[j] \in layer_dict_keys}}

\* output_data lines 192-198: the data of the layers asked for and the
\* container attributes it is taken from
LayerData(c, layer, is_image) ==
    IF Len(layer) = 1 /\ layer[1] \in {"H", "L"}
    THEN LET field == IF layer[1] = "H" THEN "height_data" ELSE "light_intensity_data"
         IN  IF c[field] = None
             THEN [exc |-> "TypeError", val |-> None, src |-> {}]
             ELSE [exc |-> "", val |-> c[field].data, src |-> {field}]
    ELSE IF layer = << >>
    THEN [exc |-> "IndexError", val |-> None, src |-> {}]
    ELSE IF layer[1] = "L" \/ (Len(layer) > 1 /\ layer[2] = "L")
    THEN [exc |-> get_data_from_layers(c, JoinL(Tail(layer)), 2, is_image).exc,
          val |-> get_data_from_layers(c, JoinL(Tail(layer)), 2, is_image).val,
          src |-> BlocksRead(Tokens(JoinL(Tail(layer)), 2))]
    ELSE [exc |-> get_data_from_layers(c, layer, 1, is_image).exc,
          val |-> get_data_from_layers(c, layer, 1, is_image).val,
          src |-> BlocksRead(Tokens(layer, 1))]

\* np.reshape(data, (height, width))
Reshape(data, h, w) == [r \in 1..h |-> [k \in 1..w |-> data[((r - 1) * w) + k]]]

\* what output_data did: the writer it reached, the data it handed over,
\* the attributes the data came from and the file the writer wrote
Output(exc, reached, d, file) ==
    [exc |-> exc, reached |-> reached, data |-> d.val, src |-> d.src, file |-> file]

\* output_csv and output_image after the file name was made: np.reshape
\* raises ValueError unless data has height * width elements; then the file
\* is opened for writing and the rows are saved.  Image data of mode F
\* (layer L or H) and empty images are handed to PIL, whose result is not
\* decided here (pil = "?").
WriteFile(c, a, d, ext, mode) ==
    IF ImageSize(c).exc # "" THEN Output("TypeError", "", d, None)
    ELSE IF Len(d.val) # ImageSize(c).val
    THEN Output("ValueError", IF mode = "" THEN "output_csv" ELSE "output_image", d, None)
    ELSE Output("", IF mode = "" THEN "output_csv" ELSE "output_image", d,
                [ext |-> ext, layer |-> a.layer, header |-> a.type = "hcsv", mode |-> mode,
                 pil |-> IF mode = "F" \/ (mode = "RGB" /\ d.val = << >>) THEN "?" ELSE "",
                 rows |-> Reshape(d.val, c.image_height.v, c.image_width.v)])

output_csv(c, a, d) == WriteFile(c, a, d, "csv", "")

output_image(c, a, d) ==
    WriteFile(c, a, d, a.type, IF a.layer \in {<<"L">>, <<"H">>} THEN "F" ELSE "RGB")

\* output_data with the data d of the layers
OutputOf(c, a, d) ==
    IF d.exc # "" THEN Output(d.exc, "", d, None)
    ELSE IF is_image_dict(a.type) THEN output_image(c, a, d)
    ELSE output_csv(c, a, d)

output_data(c, a) ==
    IF a.type \notin OutputTypes
    THEN Output("KeyError", "", [val |-> None, src |-> {}], None)
    ELSE OutputOf(c, a, LayerData(c, a.layer, is_image_dict(a.type)))

----------------------------------------------------------------------------
(* vk4_driver.py: main.  The command line is args = [input, type, layer];  *)
(* main selects a builder from the layer string, opens the input file in   *)
(* a with block, has the director build the container, leaves the with     *)
(* block and calls vk4out.output_data.                                     *)

\* lines 115-120
SelectBuild(layers) ==
    IF Len(layers) = 1 /\ layers[1] \in {"L", "H"} THEN layers[1]
    ELSE IF Len(layers) > 1 /\ (layers[1] = "L" \/ layers[2] = "L") THEN "rgb_light"
    ELSE "rgb_peak"

builder_dict(build) ==
    CASE build = "L" -> "Vk4BuilderLight"
      [] build = "H" -> "Vk4BuilderHeight"
      [] build = "rgb_light" -> "Vk4BuilderRGBlight"
      [] build = "rgb_peak" -> "Vk4BuilderRGBpeak"

\* the layer strings of the --layer help text
HelpLayers ==
    {<<"R">>, <<"G">>, <<"B">>, <<"R", "L">>, <<"G", "L">>, <<"B", "L">>, <<"L">>, <<"H">>,
     <<"R", "G", "B">>, <<"L", "R", "G", "B">>, <<"R", "B">>, <<"L", "G", "B">>,
     <<"L", "R", "B">>}

\* other combinations of R, G, B, alone or after an L, and a channel
\* named twice
MoreLayers ==
    {<<"B", "G">>, <<"G", "R", "B">>, <<"L", "B">>, <<"L", "B", "R">>, <<"R", "R">>}

\* strings with a token that is no layer
InvalidLayers ==
    {<< >>, <<"X">>, <<"r">>, <<"R", "X">>, <<"R", "H">>, <<"H", "R">>, <<"L", "X">>,
     <<"L", "L">>, <<"H", "L">>, <<"L", "H">>, <<"R", "L", "X">>}

InvalidTypes == {"bmp", "CSV"}

Arg(input, type, layer) == [input |-> input, type |-> type, layer |-> layer]

\* the command lines tried: every layer string with a text and an image
\* type, every type with a few layer strings, and a missing input file
MainArgs ==
    {Arg("present", t, l) : t \in {"csv", "png"}, l \in HelpLayers \cup MoreLayers \cup InvalidLayers}
      \cup {Arg("present", t, l) : t \in OutputTypes \cup InvalidTypes,
                                   l \in {<<"R", "B">>, <<"L", "R", "B">>, <<"H">>, <<"L">>, <<"X">>}}
      \cup {Arg("missing", "csv", <<"R">>)}

FewArgs ==
    {Arg("present", "csv", <<"R", "G", "B">>), Arg("present", "png", <<"L", "G", "B">>),
     Arg("present", "hcsv", <<"H">>), Arg("present", "tiff", <<"L">>),
     Arg("present", "bmp", <<"R">>), Arg("present", "csv", <<"R", "X">>)}

\* the input files tried: complete files of several shapes and contents,
\* files cut at the end of a section and one byte short, other bit depths
MainScenarios ==
    {Scenario(d1, d2, c, 258, -1, 24, FullCut) :
        d1 \in FewDimPairs, d2 \in {<<1, 1>>, <<1, MaxDim>>}, c \in ColorSeeds}
      \cup {Scenario(<<MaxDim, 1>>, <<1, 1>>, <<10, 20, 30>>, 258, -1, 24, cut) : cut \in Cuts}
      \cup {Scenario(<<1, 1>>, <<1, 1>>, <<10, 20, 30>>, 258, -1, depth, FullCut) :
               depth \in BitDepths}

FewScenarios ==
    {Scenario(<<MaxDim, 1>>, <<1, MaxDim>>, c, 258, -1, 24, FullCut) :
        c \in {<<10, 20, 30>>, <<200, 0, 77>>}}

MainRuns == (MainScenarios \X FewArgs) \cup (FewScenarios \X MainArgs)

InitMain ==
    /\ \E run \in MainRuns :
          /\ written = KnownOf(run[1])
          /\ in_file = FileOf(run[1])
          /\ args = run[2]
    /\ pos = 0
    /\ prog = "main"
    /\ pc = "main"
    /\ offsets = None
    /\ script = ScriptNone
    /\ vk4 = VkContainer_init
    /\ todo = << >>
    /\ call = None
    /\ ret = None
    /\ outcome = "running"
    /\ handle = [opens |-> 0, open |-> FALSE]
    /\ out = None
    /\ earlier = None

\* lines 112-125: from here on prog is the builder class main instantiates
Main_select_builder ==
    /\ prog = "main"
    /\ pc = "main"
    /\ prog' = builder_dict(SelectBuild(args.layer))
    /\ pc' = "open"
    /\ UNCHANGED <<in_file, pos, written, offsets, script, vk4, todo, call, ret, outcome, mainvars>>

\* the cursor of the file object open(name, 'rb') returns, whatever cursor
\* p another file object on the same file has
open_rb_SharedCursor(p) == p

open_rb(p) == 0

\* line 129, open(in_file_name, 'rb'): IOError when there is no such file
Main_open ==
    /\ args # None
    /\ pc = "open"
    /\ IF args.input = "present"
       THEN /\ handle' = [opens |-> handle.opens + 1, open |-> TRUE]
            /\ pos' = open_rb(pos)
            /\ pc' = "opened"
            /\ outcome' = outcome
       ELSE /\ outcome' = "IOError"
            /\ pc' = "exited"
            /\ UNCHANGED <<handle, pos>>
    /\ UNCHANGED <<in_file, prog, written, offsets, script, vk4, todo, call, ret, args, out, earlier>>

\* in_file.__exit__ of a with block left only when its body returned
file_exit_OnReturn(h, oc) == IF oc = "returned" THEN [h EXCEPT !.open = FALSE] ELSE h

\* in_file.__exit__: the file is closed, however the with block is left
file_exit(h, oc) == [h EXCEPT !.open = FALSE]

\* a with block that swallows the exception of its body
AfterWith_Swallow(oc) == "output_data"

\* where main goes on after the with block: an exception of the body
\* propagates out of main
AfterWith(oc) == IF oc = "returned" THEN "output_data" ELSE "exited"

\* lines 129-135: the with block is left, by the end of its body (build
\* returned) or by the exception the builder or the director raised
Main_with_exit ==
    /\ args # None
    /\ pc \in {"built", "done"}
    /\ handle.open
    /\ handle' = file_exit(handle, outcome)
    /\ pc' = AfterWith(outcome)
    /\ outcome' = IF outcome = "returned" THEN "running" ELSE outcome
    /\ UNCHANGED <<in_file, pos, prog, written, offsets, script, vk4, todo, call, ret,
                   args, out, earlier>>

\* what PIL makes of the image handed to it: a file, or an error and no file
PilOutcomes(r) ==
    IF r.file # None /\ r.file.pil = "?"
    THEN {r, [r EXCEPT !.exc = "IOError", !.file = None]}
    ELSE {r}

\* line 137: vk4out.output_data(vk4_container, args), the last call of main
Main_output_data ==
    /\ args # None
    /\ pc = "output_data"
    /\ \E r \in PilOutcomes(output_data(vk4, args)) :
          /\ out' = [reached |-> r.reached, data |-> r.data, src |-> r.src, file |-> r.file]
          /\ outcome' = IF r.exc = "" THEN "returned" ELSE r.exc
    /\ call' = [fn |-> "output_data", at |-> pos]
    /\ pc' = "exited"
    /\ UNCHANGED <<in_file, pos, prog, written, offsets, script, vk4, todo, ret,
                   args, handle, earlier>>

NextMain ==
    \/ Main_select_builder
    \/ Main_open
    \/ Vk4Builder_init
    \/ Build_get_offsets
    \/ Build_meas_conds
    \/ Build_string_data
    \/ Build_rgb_peak
    \/ Build_rgb_light
    \/ Build_height
    \/ Build_light
    \/ Build_image_height
    \/ Build_image_width
    \/ Build_get_result
    \/ Main_with_exit
    \/ Main_output_data

SpecMain == InitMain /\ [][NextMain]_vars

\* the exit status of the interpreter: 1 after an uncaught exception
ExitStatus == IF outcome = "returned" THEN 0 ELSE 1

\* the steps of the builder constructor and of VkDirector.build
DecodeSteps ==
    {"__init__", "get_offsets", "meas_conds", "string_data", "rgb_peak", "rgb_light",
     "height", "light", "image_height", "image_width"}

\* a decode step of a run of main ended in an exception
DecodeFailed ==
    /\ args # None
    /\ call # None
    /\ call.fn \in DecodeSteps
    /\ outcome \notin {"running", "returned"}

\* C12: when a decode step of the builder or of VkDirector.build fails in
\* a run of main, build returns no container and output_data is not
\* called; whenever output_data was called, build had returned a container
\* whose offsets, measurement conditions, string data and dimensions are
\* set.
C12_AllOrNothing ==
    /\ DecodeFailed => (ret = None /\ out = None /\ pc \in {"done", "exited"})
    /\ (args # None /\ (out # None \/ pc = "output_data")) =>
          /\ ret = Val("self.vk4")
          /\ \A field \in {"offsets", "measurement_conditions", "string_data",
                           "image_width", "image_height", DimensionSource(prog)} :
                vk4[field] # None

C12_Witness ==
    /\ DecodeFailed
    /\ pc = "exited"
    /\ call.fn = "rgb_peak"
    /\ outcome = "TypeError"
    /\ vk4.measurement_conditions # None
    /\ out = None

\* the positions of main inside the with block
InsideWith ==
    {"opened", "build", "meas_conds", "string_data", "layers", "image_width",
     "get_result", "built", "done"}

\* C13: main opens the input file at most once, the file is open only
\* inside the with block, and once main has left the with block (build
\* returned, or the builder constructor or build raised) the file has been
\* opened exactly once and is closed.
C13_ScopedRelease ==
    args # None =>
        /\ handle.opens <= 1
        /\ handle.open => pc \in InsideWith
        /\ pc \in InsideWith => handle.opens = 1
        /\ (pc = "output_data" \/ (pc = "exited" /\ call # None)) =>
              (handle.opens = 1 /\ ~handle.open)

C13_Witness ==
    /\ args # None
    /\ pc = "exited"
    /\ call # None /\ call.fn = "__init__"
    /\ outcome = "struct.error"
    /\ handle = [opens |-> 1, open |-> FALSE]

\* the input file of the run is complete and its color blocks are 24-bit
CompleteFile ==
    /\ Len(in_file) = written.ends.height
    /\ written.rgb_peak.bit_depth = 24

\* the container attribute a layer string of the help text selects
HelpSource(layer) ==
    IF layer = <<"H">> THEN {"height_data"}
    ELSE IF layer = <<"L">> THEN {"light_intensity_data"}
    ELSE IF \E k \in 1..Len(layer) : layer[k] = "L" THEN {"rgb_light_data"}
    ELSE {"rgb_peak_data"}

\* C16: for every layer string of the help text (R, G, B, RL, GL, BL, L,
\* H, RGB, LRGB, RB, LGB, LRB) and every output type, a run of main on a
\* complete file reaches output_csv or output_image without an exception
\* before it, with the data of the peak color block for R, G, B alone, of
\* the light color block when an L accompanies them, of the light
\* intensity block for L and of the height block for H.
C16_HelpLayersAccepted ==
    (args # None /\ args.input = "present" /\ args.layer \in HelpLayers
       /\ args.type \in OutputTypes /\ CompleteFile /\ pc = "exited") =>
        /\ out # None
        /\ out.reached \in {"output_csv", "output_image"}
        /\ out.src = HelpSource(args.layer)

\* the channels a layer string names
Selected(layer) ==
    {ch \in 1..3 : \E k \in 1..Len(layer) : layer[k] = <<"R", "G", "B">>[ch]}

\* a string of color layers naming distinct channels, alone or after an L
DistinctColorLayers(layer) ==
    LET rgb == IF layer # << >> /\ layer[1] = "L" THEN Tail(layer) ELSE layer
    IN  /\ rgb # << >>
        /\ \A k \in 1..Len(rgb) : rgb[k] \in {"R", "G", "B"}
        /\ \A j, k \in 1..Len(rgb) : rgb[j] = rgb[k] => j = k

\* C17: the csv output of color layers naming distinct channels holds, for
\* each pixel of the color block the layers select, R*65536 + G*256 + B
\* where a selected channel is the pixel's value and an unselected channel
\* is 0; the value is below 2^24.
C17_CsvComposite ==
    (args # None /\ out # None /\ out.reached = "output_csv"
       /\ DistinctColorLayers(args.layer)) =>
        LET src == vk4[CHOOSE field \in out.src : TRUE].data
            sel == Selected(args.layer)
        IN  /\ Len(out.data) = Len(src)
            /\ \A i \in 1..Len(src) :
                  /\ out.data[i] = (IF 1 \in sel THEN src[i][1] ELSE 0) * 65536
                                     + (IF 2 \in sel THEN src[i][2] ELSE 0) * 256
                                     + (IF 3 \in sel THEN src[i][3] ELSE 0)
                  /\ out.data[i] < 16777216
            /\ out.file # None => out.file.rows = Reshape(out.data, vk4.image_height.v, vk4.image_width.v)

C17_Witness ==
    /\ args # None /\ out # None /\ out.reached = "output_csv"
    /\ args.layer = <<"L", "R", "B">>
    /\ out.src = {"rgb_light_data"}
    /\ Len(out.data) = MaxDim
    /\ vk4.rgb_light_data.data[1] = <<77, 200, 0>>
    /\ vk4.rgb_light_data.data[2] = <<117, 240, 0>>
    /\ out.data[1] = 5046272 /\ out.data[2] = 7667712
    /\ out.file.rows[2] = <<7667712>>

\* H or L alone, or letters R, G, B with or without an L
ValidLayer(layer) ==
    \/ layer \in {<<"H">>, <<"L">>}
    \/ /\ \A k \in 1..Len(layer) : layer[k] \in {"R", "G", "B", "L"}
       /\ \E k \in 1..Len(layer) : layer[k] \in {"R", "G", "B"}

\* C20: when the layer string has a token that is no layer, or the type is
\* none of csv, hcsv, jpeg, png, tiff, no writer is reached and no output
\* file is written, and the run ends with a nonzero exit status.
C20_ArgumentFailure ==
    (args # None /\ (~ValidLayer(args.layer) \/ args.type \notin OutputTypes)) =>
        /\ out # None => (out.reached = "" /\ out.file = None)
        /\ pc = "exited" => ExitStatus # 0

C20_Witness ==
    /\ args # None /\ pc = "exited"
    /\ args.layer = <<"R", "X">> /\ args.type = "csv"
    /\ CompleteFile
    /\ call.fn = "output_data"
    /\ outcome = "KeyError"
    /\ out.file = None
    /\ ExitStatus = 1

----------------------------------------------------------------------------
(* Two decodes of the same bytes: when a decode has ended, its result is   *)
(* kept and a second file object on the same bytes is decoded by the same  *)
(* builder (or by VK4container)                                            *)

\* how a decode ended: its outcome, its last step and the container
DecodeResult ==
    [outcome |-> outcome, step |-> call.fn, pos |-> pos, offsets |-> offsets, vk4 |-> vk4]

Decode_again ==
    /\ args = None
    /\ prog \in Builders \cup {"VK4container"}
    /\ pc \in {"built", "done"}
    /\ earlier = None
    /\ earlier' = DecodeResult
    /\ pos' = open_rb(pos)
    /\ pc' = "opened"
    /\ offsets' = None
    /\ vk4' = VkContainer_init
    /\ todo' = << >>
    /\ call' = None
    /\ ret' = None
    /\ outcome' = "running"
    /\ UNCHANGED <<in_file, prog, written, script, args, handle, out>>

InitTwice == InitFileIn(MainScenarios) /\ prog \in Builders \cup {"VK4container"}

NextTwice ==
    \/ Vk4Builder_init
    \/ Build_get_offsets
    \/ Build_meas_conds
    \/ Build_string_data
    \/ Build_rgb_peak
    \/ Build_rgb_light
    \/ Build_height
    \/ Build_light
    \/ Build_image_height
    \/ Build_image_width
    \/ Build_get_result
    \/ VK4container_init
    \/ Decode_again

SpecTwice == InitTwice /\ [][NextTwice]_vars

----------------------------------------------------------------------------
(* The minimal file: the 12-byte header, the offset table and one 1x1      *)
(* color-peak block holding (10, 20, 30).  The other 13 offsets locate no  *)
(* data: they are 0, or the end of the file.  It is decoded by each        *)
(* builder, by VK4container and by the script, next to a complete file     *)
(* with the same peak block.                                               *)

MinimalSize == TableEnd + 20 + 3

MinimalKnown(nodata, dll, gap) ==
    [extension |-> Extension, dll_version |-> dll, file_type |-> 0, gap |-> gap,
     rgb_peak |-> ColorBlock(1, 1, 24, <<10, 20, 30>>),
     offsets |-> [n \in OffsetNameSet |-> IF n = "color_peak" THEN TableEnd ELSE nodata]]

MinimalBytes(k) ==
    HeaderBytes(k) \o TableBytes(k.offsets, k.gap) \o ColorBlockBytes(k.rgb_peak)

\* with the other offsets 0 the DLL version is 0: a block read at offset 0
\* then has height 0 (a larger height only makes the read longer)
MinimalFiles ==
    {MinimalKnown(0, 0, gap) : gap \in GapBytes}
      \cup {MinimalKnown(MinimalSize, dll, gap) : dll \in {0, 3}, gap \in GapBytes}

CompleteTwin == Scenario(<<1, 1>>, <<1, MaxDim>>, <<10, 20, 30>>, 258, -1, 24, FullCut)

InitMinimal ==
    /\ \/ \E k \in MinimalFiles : written = k /\ in_file = MinimalBytes(k)
       \/ written = KnownOf(CompleteTwin) /\ in_file = FileOf(CompleteTwin)
    /\ prog \in Builders \cup {"VK4container", "vk4_datapull"}
    /\ pos = 0
    /\ pc = "opened"
    /\ offsets = None
    /\ script = ScriptNone
    /\ vk4 = VkContainer_init
    /\ todo = << >>
    /\ call = None
    /\ ret = None
    /\ outcome = "running"
    /\ NoMain

NextMinimal ==
    \/ Vk4Builder_init
    \/ Build_get_offsets
    \/ Build_meas_conds
    \/ Build_string_data
    \/ Build_rgb_peak
    \/ Build_rgb_light
    \/ Build_height
    \/ Build_light
    \/ Build_image_height
    \/ Build_image_width
    \/ Build_get_result
    \/ VK4container_init
    \/ ScriptHeader
    \/ ScriptGetOffsets
    \/ Script_pull_color_peak
    \/ Script_pull_color_light
    \/ Script_pull_light_data
    \/ Script_pull_height_data

SpecMinimal == InitMinimal /\ [][NextMinimal]_vars

IsMinimal == Len(in_file) = MinimalSize

\* the entry points that decode the color-peak block
PeakDecoders == {"Vk4Builder", "Vk4BuilderRGBpeak", "VK4container", "vk4_datapull"}

\* C15: decoding the minimal file succeeds, no decode step ends in an
\* exception, and the peak block of the result holds exactly one pixel
\* tuple, (10, 20, 30).
C15_MinimalFileDecodes ==
    (IsMinimal /\ prog \in PeakDecoders) =>
        /\ pc # "done"
        /\ Built => vk4.rgb_peak_data.data = <<<<10, 20, 30>>>>
        /\ (prog = "vk4_datapull" /\ script.color_peak_data # None) =>
              script.color_peak_data.data = <<<<10, 20, 30>>>>

----------------------------------------------------------------------------
(* The decoders of the script called again, in any order, after the offset *)
(* table is read (SpecBlocks).                                             *)

\* the module-level name the script binds a decoder's result to
ScriptFieldOf(fn) ==
    CASE fn = "pull_color_peak" -> "color_peak_data"
      [] fn = "pull_color_light" -> "color_light_data"
      [] fn = "pull_light_data" -> "light_data"
      [] fn = "pull_height_data" -> "height_data"

\* pixel-block decoder fn is called in this step
PullCalled(fn) ==
    /\ prog = "vk4_datapull"
    /\ pc = "offsets_read"
    /\ call' # None
    /\ call'.fn = fn
    /\ call'.at = pos

\* C18: with the offset table resolved, a pixel-block decoder called after
\* any other calls and from any cursor position returns the block it
\* returned before, reads its own block (the cursor ends at the end of that
\* block), and returns on a complete file however many calls came before.
C18_OrderIndependent ==
    [][\A fn \in ColorPulls \cup GrayPulls :
          PullCalled(fn) =>
             /\ script[ScriptFieldOf(fn)] # None =>
                   (ret' # None /\ ret'.v = script[ScriptFieldOf(fn)])
             /\ ret' # None => pos' = written.ends[SectionOf(fn)]
             /\ (Len(in_file) = written.ends.height
                   /\ (fn \in ColorPulls => written[SectionOf(fn)].bit_depth = 24))
                   => ret' # None]_vars

\* the peak block decoded last, from the end of the height block, after
\* the three other decoders, the reverse of the script's order
C18_Witness ==
    /\ JustCalled({"pull_color_peak"})
    /\ call.at = written.ends.height
    /\ ret # None
    /\ Len(ret.v.data) = MaxDim
    /\ ret.v.data = written.rgb_peak.data
    /\ script.height_data # None
    /\ script.light_data # None
    /\ script.color_light_data # None
    /\ pos = written.ends.rgb_peak

----------------------------------------------------------------------------
(* The accessor and the functions of vk4out called on a built container,   *)
(* in any order and any number of times.  A call returns a value and the   *)
(* array that holds it; the container is what Store leaves of it.          *)

\* the (layers, step) pairs get_data_from_layers is called with
LayerCalls ==
    {<<<<"R">>, 1>>, <<<<"R", "B">>, 1>>, <<<<"G", "L">>, 2>>,
     <<<<"R", "L", "B", "L">>, 2>>, <<<<"X">>, 1>>, <<<< >>, 1>>}

\* the command lines output_data is called with
OutputArgs ==
    FewArgs \cup {Arg("present", "csv", <<"H">>), Arg("present", "csv", <<"L">>),
                  Arg("present", "jpeg", <<"R">>)}

\* a function of vk4out called on the container: it returns r.val in the
\* array ref, or raises r.exc
OutputStageCall(fn, input, r, ref) ==
    /\ pc = "built"
    /\ call' = [fn |-> fn, at |-> pos, input |-> input]
    /\ ret' = IF r.exc = "" THEN [v |-> r.val, ref |-> ref] ELSE None
    /\ vk4' = Store(vk4, ref, r.val)
    /\ outcome' = IF r.exc = "" THEN "returned" ELSE r.exc
    /\ UNCHANGED <<in_file, pos, prog, pc, written, offsets, script, todo, mainvars>>

\* the layer lists the create_ functions are called with: the list holder
\* of some layers, or the empty list where the container has not their data
LayerList(c, toks) == IF Holder(c, toks).exc = "" THEN Holder(c, toks).val ELSE << >>

LayerListRefs(c, toks) == IF Holder(c, toks).exc = "" THEN HolderRefs(toks) ELSE << >>

Call_create_composite_rgb_values ==
    \E lc \in LayerCalls :
       OutputStageCall("create_composite_rgb_values", lc,
                       create_composite_rgb_values(vk4, LayerList(vk4, Tokens(lc[1], lc[2]))),
                       created_ref(LayerListRefs(vk4, Tokens(lc[1], lc[2]))))

Call_create_array_from_rgb_layers ==
    \E lc \in LayerCalls :
       OutputStageCall("create_array_from_rgb_layers", lc,
                       create_array_from_rgb_layers(vk4, LayerList(vk4, Tokens(lc[1], lc[2]))),
                       created_ref(LayerListRefs(vk4, Tokens(lc[1], lc[2]))))

Call_get_data_from_layers ==
    \E lc \in LayerCalls, is_image \in BOOLEAN :
       OutputStageCall("get_data_from_layers", <<lc, is_image>>,
                       get_data_from_layers(vk4, lc[1], lc[2], is_image),
                       created_ref(HolderRefs(Tokens(lc[1], lc[2]))))

\* output_data returns nothing; np.reshape, np.savetxt and Image.fromarray
\* read the data handed to them
Call_output_data ==
    /\ pc = "built"
    /\ \E a \in OutputArgs :
          /\ call' = [fn |-> "output_data", at |-> pos, input |-> a]
          /\ \E r \in PilOutcomes(output_data(vk4, a)) :
                /\ out' = [reached |-> r.reached, data |-> r.data, src |-> r.src,
                           file |-> r.file]
                /\ ret' = IF r.exc = "" THEN [v |-> None, ref |-> ""] ELSE None
                /\ outcome' = IF r.exc = "" THEN "returned" ELSE r.exc
    /\ UNCHANGED <<in_file, pos, prog, pc, written, offsets, script, vk4, todo,
                   args, handle, earlier>>

\* the files the containers are built from: blocks of different sizes, the
\* four blocks of one size, other bit depths
OutputScenarios ==
    FewScenarios
      \cup {Scenario(<<MaxDim, 1>>, <<MaxDim, 1>>, <<10, 20, 30>>, 258, -1, 24, FullCut)}
      \cup {Scenario(<<1, 1>>, <<1, 1>>, <<10, 20, 30>>, 258, -1, depth, FullCut) :
               depth \in BitDepths}

InitOutput == InitFileIn(OutputScenarios) /\ prog \in Builders \cup {"VK4container"}

NextOutput ==
    \/ Vk4Builder_init
    \/ Build_get_offsets
    \/ Build_meas_conds
    \/ Build_string_data
    \/ Build_rgb_peak
    \/ Build_rgb_light
    \/ Build_height
    \/ Build_light
    \/ Build_image_height
    \/ Build_image_width
    \/ Build_get_result
    \/ VK4container_init
    \/ Call_get_single_color_values
    \/ Call_get_data_from_layers
    \/ Call_create_composite_rgb_values
    \/ Call_create_array_from_rgb_layers
    \/ Call_output_data

SpecOutput == InitOutput /\ [][NextOutput]_vars

OutputStageCalls ==
    {"get_single_color_values", "get_data_from_layers", "create_composite_rgb_values",
     "create_array_from_rgb_layers", "output_data"}

\* C19: a call of the accessor or of an output-stage function on a built
\* container, after any calls before it, leaves every field of the
\* container as it was (offsets, measurement conditions, the data of each
\* decoded block, image_width and image_height), and the array it returns,
\* where it returns one, is newly allocated.
C19_ContainerImmutable ==
    [][(pc = "built" /\ call' # None /\ call'.fn \in OutputStageCalls) =>
          /\ vk4' = vk4
          /\ (ret' # None /\ ret'.ref # "") => ret'.ref = "new"]_vars

\* a composite array returned after output_data has written a file of the
\* height data; the container still holds the blocks of the file
C19_Witness ==
    /\ Built
    /\ call # None
    /\ call.fn = "get_data_from_layers"
    /\ ret # None
    /\ ret.ref = "new"
    /\ Len(ret.v) = MaxDim
    /\ out # None
    /\ out.file # None
    /\ out.src = {"height_data"}
    /\ vk4.rgb_peak_data # None
    /\ vk4.rgb_peak_data.data = written.rgb_peak.data
    /\ Len(vk4.rgb_peak_data.data) = MaxDim
    /\ vk4.height_data # None

----------------------------------------------------------------------------
(* The order of VkDirector.build (Spec): the steps of a build are told by  *)
(* the position the director is at.                                        *)

\* the container attribute a builder's layer method sets
LayerField(layer) ==
    CASE layer = "rgb_peak" -> "rgb_peak_data"
      [] layer = "rgb_light" -> "rgb_light_data"
      [] layer = "height" -> "height_data"
      [] layer = "light" -> "light_intensity_data"

LayerNames == {"rgb_peak", "rgb_light", "height", "light"}

\* the attributes of the layers listed for a builder
ListedFields(builder) ==
    {LayerField(build_options(builder)[i]) : i \in 1..Len(build_options(builder))}

\* the director has not reached the layer loop
BeforeLayers == pc \in {"opened", "build", "meas_conds", "string_data"}

\* what a step of a build does, by the position the director is at
BuildOrderStep ==
    prog \in Builders =>
        /\ BeforeLayers => \A fld \in BlockFields : vk4[fld] = None
        /\ (pc = "layers" /\ todo # << >>) =>
              /\ vk4.offsets # None
              /\ vk4.measurement_conditions # None
              /\ vk4.string_data # None
              /\ call'.fn = Head(todo)
              /\ LayerField(call'.fn) \in ListedFields(prog)
              /\ vk4[LayerField(call'.fn)] = None
              /\ outcome' = "running" => vk4'[LayerField(call'.fn)] # None
              /\ \A fld \in BlockFields \ {LayerField(call'.fn)} : vk4'[fld] = vk4[fld]
              /\ vk4'.image_height = None /\ vk4'.image_width = None
        /\ (pc = "layers" /\ todo = << >>) =>
              /\ call'.fn = "image_height"
              /\ \A fld \in BlockFields : vk4[fld] # None <=> fld \in ListedFields(prog)
              /\ DimensionSource(prog) \in ListedFields(prog)
              /\ outcome' = "running"
              /\ vk4'.image_height = Val(vk4[DimensionSource(prog)].height)
              /\ \A fld \in BlockFields : vk4'[fld] = vk4[fld]
        /\ pc = "image_width" =>
              /\ call'.fn = "image_width"
              /\ vk4[DimensionSource(prog)] # None
              /\ outcome' = "running"
              /\ vk4'.image_width = Val(vk4[DimensionSource(prog)].width)
              /\ \A fld \in BlockFields : vk4'[fld] = vk4[fld]
        /\ pc = "get_result" =>
              /\ call'.fn = "get_result"
              /\ vk4' = vk4
              /\ pc' = "built"

\* C21: in a run of VkDirector.build with any of the five builders, no
\* pixel block is set before the layer loop; a layer is decoded only with
\* offsets, measurement conditions and string data set, it is a layer
\* listed for the builder and it sets its own attribute and no other;
\* image_height() runs when exactly the listed blocks are set, it and
\* image_width() read a block that is set, so neither raises, and after
\* them get_result() returns the container as it is.
C21_BuildOrdering == [][BuildOrderStep]_vars

\* Vk4BuilderLight has built: only the light attribute is set, the
\* dimensions are read from it, and the file's peak block has another shape
C21_Witness ==
    /\ Built
    /\ prog = "Vk4BuilderLight"
    /\ call.fn = "get_result"
    /\ vk4.light_intensity_data # None
    /\ vk4.rgb_peak_data = None
    /\ vk4.rgb_light_data = None
    /\ vk4.height_data = None
    /\ vk4.measurement_conditions # None
    /\ vk4.string_data # None
    /\ vk4.image_height = Val(vk4.light_intensity_data.height)
    /\ vk4.image_height # Val(written.rgb_peak.height)

----------------------------------------------------------------------------
(* The length of what get_single_color_values returns, on the containers   *)
(* that hold both color blocks (Spec).                                     *)

\* the containers in which both color blocks are present
BothColorBlocks == {"Vk4Builder", "VK4container"}

\* the container attribute of the block an rgb_type names
SelectedBlock(rgb_type) == IF rgb_type = "peak" THEN "rgb_peak_data" ELSE "rgb_light_data"

\* C22: on a container that holds both color blocks,
\* get_single_color_values(c, b) for a channel c and a block b of peak,
\* light returns, never indexing past the end of its result array, and the
\* result has as many rows as block b has pixels (b's width times b's
\* height), whatever block image_width and image_height were taken from.
C22_ResultLengthMatchesBlock ==
    (Built /\ prog \in BothColorBlocks
       /\ call.fn = "get_single_color_values"
       /\ call.color \in {"red", "green", "blue"}
       /\ call.rgb_type \in {"peak", "light"}) =>
        /\ outcome # "IndexError"
        /\ outcome = "returned"
        /\ Len(ret.v) = vk4[SelectedBlock(call.rgb_type)].width
                           * vk4[SelectedBlock(call.rgb_type)].height

====
